---- MODULE Spec2Model ----
(***************************************************************************)
(* Model of the pentominoes crate: the CellShape canonicaliser             *)
(* (cell_shape.rs), the Transform matrices and their composition           *)
(* (transform.rs), the orientation enumerator (pentomino.rs) and the       *)
(* TileGrid board (tile_grid.rs).                                          *)
(* Array indices are kept 0-based as in the source.                        *)
(***************************************************************************)
EXTENDS Integers, Sequences, FiniteSets

VARIABLES
    op,        \* name of the last operation performed
    coords,    \* Vec<Coord> handed to from_coordinate_list (lhs)
    coords2,   \* second Vec<Coord> (rhs of a comparison)
    grid,      \* [[Tile; M]; N] handed to from_2darray (lhs)
    grid2,     \* second grid (rhs of a comparison)
    before,    \* the CellShape an operation received
    shape,     \* the CellShape an operation returned (lhs)
    shape2,    \* second CellShape (rhs of a comparison)
    t,         \* the Transform applied
    point,     \* Coord handed to transform_coord
    image,     \* Coord returned by transform_coord
    tile,      \* Tile returned by shape[point]
    images,    \* the mapped iterator of create_all_orientations, in order
    orients,   \* HashSet<CellShape> returned by create_all_orientations
    orients2,  \* the same for one of the shapes of `orients`
    piece,     \* the Pentomino whose shapes() was called
    word,      \* the factors of a product a * b * ..., left to right
    acc,       \* the value of that product
    ta, tb, tc,   \* operands of an associativity check
    lprod,     \* (ta * tb) * tc
    rprod,     \* ta * (tb * tc)
    receiver,  \* the TileGrid that fill and try_place_over are called on
    prev,      \* the receiver before the last call
    arg_other, \* the TileGrid handed to try_place_over
    arg_offset, \* Coord handed to fill / try_place_over
    ret        \* bool returned by fill / try_place_over

vars == <<op, coords, coords2, grid, grid2, before, shape, shape2, t, point,
          image, tile, images, orients, orients2, piece, word, acc, ta, tb, tc,
          lprod, rprod, receiver, prev, arg_other, arg_offset, ret>>

----------------------------------------------------------------------------
(* Bounds of the model *)

\* longest coordinate list handed to from_coordinate_list
MaxLen == 3
\* coordinates of list entries and points range over -1..MaxCoord
MaxCoord == 1
\* grids handed to from_2darray have 1..MaxRows rows and 1..MaxCols columns
MaxRows == 2
MaxCols == 3
\* largest number of empty rows / columns put before a grid (uniform shift)
MaxPad == 1
\* a pair of lists compared for equality: length and coordinate bound
PairLen == 2
PairCoord == 0
\* longest product a * b * ... evaluated left to right
MaxWord == 4
\* entries of the non-canonical matrices range over -MaxEntry..MaxEntry
MaxEntry == 1
\* TileGrid: the receiver lives on a Board x Board board (the N of
\* from_2darray::<N> is at most Board) and holds at most MaxTiles tiles
Board == 2
MaxTiles == 3

----------------------------------------------------------------------------
(* coord.rs *)

Coord(x, y) == [x |-> x, y |-> y]

origin == Coord(0, 0)

----------------------------------------------------------------------------
(* cell_shape.rs *)

Filled == "Filled"
Empty == "Empty"
Tile == {Filled, Empty}

\* isize::cmp
cmp(a, b) == IF a < b THEN "Less" ELSE IF a > b THEN "Greater" ELSE "Equal"

\* Ordering::then
then(o1, o2) == IF o1 = "Equal" THEN o2 ELSE o1

coord_cmp(lhs, rhs) == then(cmp(lhs.x, rhs.x), cmp(lhs.y, rhs.y))

\* CellShape { tiles }
CellShape(tiles) == [tiles |-> tiles]

empty == CellShape(<<>>)

\* Vec::sort_by: a stable sort, here by insertion from the right
RECURSIVE insert_by(_, _)
insert_by(c, s) ==
    IF s = <<>> THEN <<c>>
    ELSE IF coord_cmp(c, Head(s)) # "Greater" THEN <<c>> \o s
    ELSE <<Head(s)>> \o insert_by(c, Tail(s))

\* a from_coordinate_list that forgets to sort
sort_by_skipped(s) == s

RECURSIVE sort_by(_)
sort_by(s) == IF s = <<>> THEN <<>> ELSE insert_by(Head(s), sort_by(Tail(s)))

\* Vec::dedup: removes consecutive repeated elements
RECURSIVE dedup(_)
dedup(s) ==
    IF Len(s) <= 1 THEN s
    ELSE IF s[1] = s[2] THEN dedup(Tail(s))
    ELSE <<s[1]>> \o dedup(Tail(s))

\* Iterator::min over a non-empty set of isize
min(S) == CHOOSE m \in S : \A n \in S : m <= n

\* a from_coordinate_list that shifts x only and leaves y where it was
from_coordinate_list_keep_y(cs) ==
    IF cs = <<>> THEN empty
    ELSE LET min_x == min({cs[i].x : i \in DOMAIN cs})
             shifted == [i \in DOMAIN cs |-> Coord(cs[i].x - min_x, cs[i].y)]
         IN  CellShape(dedup(sort_by(shifted)))

\* a from_coordinate_list without the is_empty early return: on an empty
\* list `.min().unwrap()` panics and no shape is returned
from_coordinate_list_unwrap_none(cs) ==
    IF cs = <<>> THEN CellShape(<<"panicked">>)
    ELSE LET min_x == min({cs[i].x : i \in DOMAIN cs})
             min_y == min({cs[i].y : i \in DOMAIN cs})
             shifted == [i \in DOMAIN cs |->
                            Coord(cs[i].x - min_x, cs[i].y - min_y)]
         IN  CellShape(dedup(sort_by(shifted)))

\* a from_coordinate_list that subtracts min_y from x and min_x from y
from_coordinate_list_mins_swapped(cs) ==
    IF cs = <<>> THEN empty
    ELSE LET min_x == min({cs[i].x : i \in DOMAIN cs})
             min_y == min({cs[i].y : i \in DOMAIN cs})
             shifted == [i \in DOMAIN cs |->
                            Coord(cs[i].x - min_y, cs[i].y - min_x)]
         IN  CellShape(dedup(sort_by(shifted)))

from_coordinate_list(cs) ==
    IF cs = <<>> THEN empty
    ELSE LET min_x == min({cs[i].x : i \in DOMAIN cs})
             min_y == min({cs[i].y : i \in DOMAIN cs})
             shifted == [i \in DOMAIN cs |->
                            Coord(cs[i].x - min_x, cs[i].y - min_y)]
         IN  CellShape(dedup(sort_by(shifted)))

\* the number of rows N and of columns M of a [[Tile; M]; N]
rows_of(g) == Cardinality(DOMAIN g)
cols_of(g) == Cardinality(DOMAIN g[0])

\* the loops `for y in 0..N { for x in 0..M { ... push ... } }`, from the
\* k-th iteration on (k = y * M + x)
\* a scan that pushes Coord { x: y, y: x }
RECURSIVE scan_2darray_transposed(_, _)
scan_2darray_transposed(g, k) ==
    IF k >= rows_of(g) * cols_of(g) THEN <<>>
    ELSE LET y == k \div cols_of(g)
             x == k % cols_of(g)
         IN  (IF g[y][x] = Filled THEN <<Coord(y, x)>> ELSE <<>>)
                 \o scan_2darray_transposed(g, k + 1)

RECURSIVE scan_2darray(_, _)
scan_2darray(g, k) ==
    IF k >= rows_of(g) * cols_of(g) THEN <<>>
    ELSE LET y == k \div cols_of(g)
             x == k % cols_of(g)
         IN  (IF g[y][x] = Filled THEN <<Coord(x, y)>> ELSE <<>>)
                 \o scan_2darray(g, k + 1)

from_2darray(g) == from_coordinate_list(scan_2darray(g, 0))

filled_tiles(s) == s.tiles

\* impl Index<Coord> for CellShape
index(s, c) ==
    IF \E i \in DOMAIN s.tiles : s.tiles[i] = c THEN Filled ELSE Empty

----------------------------------------------------------------------------
(* transform.rs *)

\* a row / a 3x3 array literal, indexed from 0
Row(r) == [j \in 0..2 |-> r[j + 1]]
Transform(r0, r1, r2) == [elems |-> [i \in 0..2 |-> Row(<<r0, r1, r2>>[i + 1])]]

identity == Transform(<<1, 0, 0>>, <<0, 1, 0>>, <<0, 0, 1>>)

\* a mirror_horizontal that negates y instead of x
mirror_horizontal_negates_y == Transform(<<1, 0, 0>>, <<0, -1, 0>>, <<0, 0, 1>>)

mirror_horizontal == Transform(<<-1, 0, 0>>, <<0, 1, 0>>, <<0, 0, 1>>)

mirror_vertical == Transform(<<1, 0, 0>>, <<0, -1, 0>>, <<0, 0, 1>>)

\* a mirror_diagonal without the two minus signs
mirror_diagonal_unsigned == Transform(<<0, 1, 0>>, <<1, 0, 0>>, <<0, 0, 1>>)

mirror_diagonal == Transform(<<0, -1, 0>>, <<-1, 0, 0>>, <<0, 0, 1>>)

mirror_diagonal2 == Transform(<<0, 1, 0>>, <<1, 0, 0>>, <<0, 0, 1>>)

\* a rotate90 that turns the other way
rotate90_clockwise == Transform(<<0, -1, 0>>, <<1, 0, 0>>, <<0, 0, 1>>)

rotate90 == Transform(<<0, 1, 0>>, <<-1, 0, 0>>, <<0, 0, 1>>)

\* a rotate180 with the sign of the y row lost
rotate180_sign_lost == Transform(<<-1, 0, 0>>, <<0, 1, 0>>, <<0, 0, 1>>)

rotate180 == Transform(<<-1, 0, 0>>, <<0, -1, 0>>, <<0, 0, 1>>)

rotate270 == Transform(<<0, -1, 0>>, <<1, 0, 0>>, <<0, 0, 1>>)

\* a table that lists rotate90 twice and rotate270 never
RIGID_SYMMETRIES_rotate90_twice ==
    << identity, mirror_horizontal, mirror_vertical, mirror_diagonal,
       mirror_diagonal2, rotate90, rotate180, rotate90 >>

RIGID_SYMMETRIES ==
    << identity, mirror_horizontal, mirror_vertical, mirror_diagonal,
       mirror_diagonal2, rotate90, rotate180, rotate270 >>

\* a transform_coord that takes the columns of the matrix the wrong way round
transform_coord_swapped(self, c) ==
    Coord(self.elems[0][0] * c.y + self.elems[0][1] * c.x + self.elems[0][2],
          self.elems[1][0] * c.y + self.elems[1][1] * c.x + self.elems[1][2])

transform_coord(self, c) ==
    Coord(self.elems[0][0] * c.x + self.elems[0][1] * c.y + self.elems[0][2],
          self.elems[1][0] * c.x + self.elems[1][1] * c.y + self.elems[1][2])

\* a transform_shape that does not normalise what it mapped
transform_shape_raw(self, cell_shape) ==
    LET tiles == filled_tiles(cell_shape)
    IN  CellShape([i \in DOMAIN tiles |-> transform_coord(self, tiles[i])])

transform_shape(self, cell_shape) ==
    LET tiles == filled_tiles(cell_shape)
        mapped == [i \in DOMAIN tiles |-> transform_coord(self, tiles[i])]
    IN  from_coordinate_list(mapped)

\* an `at` that reads elems[i][j]
at_row_first(self, i, j) == self.elems[i][j]

at(self, i, j) == self.elems[j][i]

\* a dot product over the 2x2 part only
dot_2x2(lhs, rhs, i, j) ==
      at(lhs, i, 0) * at(rhs, 0, j)
    + at(lhs, i, 1) * at(rhs, 1, j)

dot(lhs, rhs, i, j) ==
      at(lhs, i, 0) * at(rhs, 0, j)
    + at(lhs, i, 1) * at(rhs, 1, j)
    + at(lhs, i, 2) * at(rhs, 2, j)

\* a compose with its two operands exchanged
compose_swapped(self, rhs) ==
    Transform(
        <<dot(rhs, self, 0, 0), dot(rhs, self, 1, 0), dot(rhs, self, 2, 0)>>,
        <<dot(rhs, self, 0, 1), dot(rhs, self, 1, 1), dot(rhs, self, 2, 1)>>,
        <<dot(rhs, self, 0, 2), dot(rhs, self, 1, 2), dot(rhs, self, 2, 2)>>)

\* a compose that writes dot(i, j) to row i, column j of the result
compose_transposed(self, rhs) ==
    Transform(
        <<dot(self, rhs, 0, 0), dot(self, rhs, 0, 1), dot(self, rhs, 0, 2)>>,
        <<dot(self, rhs, 1, 0), dot(self, rhs, 1, 1), dot(self, rhs, 1, 2)>>,
        <<dot(self, rhs, 2, 0), dot(self, rhs, 2, 1), dot(self, rhs, 2, 2)>>)

compose(self, rhs) ==
    Transform(
        <<dot(self, rhs, 0, 0), dot(self, rhs, 1, 0), dot(self, rhs, 2, 0)>>,
        <<dot(self, rhs, 0, 1), dot(self, rhs, 1, 1), dot(self, rhs, 2, 1)>>,
        <<dot(self, rhs, 0, 2), dot(self, rhs, 1, 2), dot(self, rhs, 2, 2)>>)

\* a Mul that hands its operands to compose in the opposite order
mul_swapped(self, rhs) == compose(rhs, self)

\* impl Mul for Transform
mul(self, rhs) == compose(self, rhs)

----------------------------------------------------------------------------
(* pentomino.rs *)

\* a grid literal, indexed from 0
Grid(rows) ==
    [y \in 0..(Len(rows) - 1) |->
        [x \in 0..(Len(rows[1]) - 1) |-> rows[y + 1][x + 1]]]

PENTOMINOES == <<"F", "I", "L", "N", "P", "T", "U", "V", "W", "X", "Y", "Z">>

\* the representative grid of each pentomino in Pentomino::shapes
rep_grid(p) ==
    LET o == Empty
        F == Filled
    IN  CASE p = "F" -> Grid(<< <<o, F, F>>, <<F, F, o>>, <<o, F, o>> >>)
          [] p = "I" -> Grid(<< <<F>>, <<F>>, <<F>>, <<F>>, <<F>> >>)
          [] p = "L" -> Grid(<< <<F, o>>, <<F, o>>, <<F, o>>, <<F, F>> >>)
          [] p = "N" -> Grid(<< <<F, o>>, <<F, F>>, <<o, F>>, <<o, F>> >>)
          [] p = "P" -> Grid(<< <<F, F>>, <<F, F>>, <<F, o>> >>)
          [] p = "T" -> Grid(<< <<F, F, F>>, <<o, F, o>>, <<o, F, o>> >>)
          [] p = "U" -> Grid(<< <<F, o, F>>, <<F, F, F>> >>)
          [] p = "V" -> Grid(<< <<F, o, o>>, <<F, o, o>>, <<F, F, F>> >>)
          [] p = "W" -> Grid(<< <<F, o, o>>, <<F, F, o>>, <<o, F, F>> >>)
          [] p = "X" -> Grid(<< <<o, F, o>>, <<F, F, F>>, <<o, F, o>> >>)
          [] p = "Y" -> Grid(<< <<F, o>>, <<F, F>>, <<F, o>>, <<F, o>> >>)
          [] p = "Z" -> Grid(<< <<F, F, o>>, <<o, F, o>>, <<o, F, F>> >>)

\* a map that skips the first entry of the table
map_orientations_skip_first(rep, symmetries) ==
    [i \in 1..(Len(symmetries) - 1) |->
        transform_shape(symmetries[i + 1], rep)]

\* symmetries.iter().map(|t| t.transform_shape(rep.clone()))
map_orientations(rep, symmetries) ==
    [i \in DOMAIN symmetries |-> transform_shape(symmetries[i], rep)]

\* Iterator::collect into a HashSet: equal values are kept once
collect(items) == {items[i] : i \in DOMAIN items}

create_all_orientations(rep, symmetries) ==
    collect(map_orientations(rep, symmetries))

----------------------------------------------------------------------------
(* tile_grid.rs *)

TileGrid(filled_tiles_) == [filled_tiles |-> filled_tiles_]

\* impl Add for Coord, on the two coordinates
add(self, rhs) == Coord(self.x + rhs.x, self.y + rhs.y)

\* Vec::contains
contains(v, c) == \E i \in DOMAIN v : v[i] = c

\* the loops `for y in 0..N { for x in 0..N { ... push ... } }` of
\* TileGrid::from_2darray, from the k-th iteration on (k = y * N + x)
RECURSIVE TileGrid_scan(_, _)
TileGrid_scan(g, k) ==
    IF k >= rows_of(g) * rows_of(g) THEN <<>>
    ELSE LET y == k \div rows_of(g)
             x == k % rows_of(g)
         IN  (IF g[y][x] = Filled THEN <<Coord(x, y)>> ELSE <<>>)
                 \o TileGrid_scan(g, k + 1)

TileGrid_from_2darray(g) == TileGrid(TileGrid_scan(g, 0))

\* impl Index<Coord> for TileGrid
TileGrid_index(self, coord) ==
    IF contains(self.filled_tiles, coord) THEN Filled ELSE Empty

\* TileGrid::fill: the returned bool and the receiver afterwards
fill(self, coord) ==
    IF TileGrid_index(self, coord) = Filled
    THEN [ret |-> TRUE, self |-> self]
    ELSE [ret |-> FALSE,
          self |-> TileGrid(Append(self.filled_tiles, coord))]

\* the first loop of try_place_over from its k-th iteration on: FALSE when
\* it reaches `return false`, TRUE when it runs to its end
RECURSIVE check_loop(_, _, _, _)
check_loop(self, other, offset, k) ==
    IF k > Len(other.filled_tiles) THEN TRUE
    ELSE IF contains(self.filled_tiles, add(other.filled_tiles[k], offset))
         THEN FALSE
         ELSE check_loop(self, other, offset, k + 1)

\* the second loop of try_place_over from its k-th iteration on: the
\* receiver's filled_tiles when it ends
RECURSIVE push_loop(_, _, _, _)
push_loop(tiles_, other, offset, k) ==
    IF k > Len(other.filled_tiles) THEN tiles_
    ELSE push_loop(Append(tiles_, add(other.filled_tiles[k], offset)),
                   other, offset, k + 1)

\* a try_place_over with one loop that pushes each cell as soon as it has
\* checked it, and returns false at the first cell that is taken
try_place_over_single_loop(self, other, offset) ==
    LET shifted == [i \in DOMAIN other.filled_tiles |->
                        add(other.filled_tiles[i], offset)]
        taken == {i \in DOMAIN shifted : contains(self.filled_tiles, shifted[i])}
    IN  IF taken = {}
        THEN [ret |-> TRUE, self |-> TileGrid(self.filled_tiles \o shifted)]
        ELSE [ret |-> FALSE,
              self |-> TileGrid(self.filled_tiles
                                    \o SubSeq(shifted, 1, min(taken) - 1))]

\* TileGrid::try_place_over: the returned bool and the receiver afterwards
try_place_over(self, other, offset) ==
    IF ~check_loop(self, other, offset, 1)
    THEN [ret |-> FALSE, self |-> self]
    ELSE [ret |-> TRUE,
          self |-> TileGrid(push_loop(self.filled_tiles, other, offset, 1))]

----------------------------------------------------------------------------
(* Inputs *)

CoordRange == -1..MaxCoord
Points == {Coord(x, y) : x \in CoordRange, y \in CoordRange}

\* every sequence over S of length at most n
SeqsUpTo(S, n) == UNION {[1..k -> S] : k \in 0..n}

CoordLists == SeqsUpTo(Points, MaxLen)

Grids ==
    UNION {[0..(n - 1) -> [0..(m - 1) -> Tile]] : n \in 1..MaxRows, m \in 1..MaxCols}

\* the points looked up in a shape built from a grid: every position of the
\* largest grid, and one step beyond it on each side
IndexPoints == {Coord(x, y) : x \in -1..MaxCols, y \in -1..MaxRows}

PairRange == -1..PairCoord
PairLists == SeqsUpTo({Coord(x, y) : x \in PairRange, y \in PairRange}, PairLen)

\* Vec2D displacements applied to the cells of a pair's first shape
PairDisplacements == {Coord(x, y) : x \in -1..(PairCoord + 1), y \in -1..(PairCoord + 1)}

\* `g` with `top` empty rows put above it and `left` empty columns before it
pad_grid(g, top, left) ==
    [y \in 0..(rows_of(g) + top - 1) |->
        [x \in 0..(cols_of(g) + left - 1) |->
            IF y >= top /\ x >= left THEN g[y - top][x - left] ELSE Empty]]

\* every cell of `cs` moved by d (Coord + Vec2D)
translate(cs, d) == [i \in DOMAIN cs |-> Coord(cs[i].x + d.x, cs[i].y + d.y)]

\* a matrix whose only non-zero entry is k at row i, column j
single_entry(i, j, k) ==
    [elems |-> [r \in 0..2 |-> [c \in 0..2 |-> IF r = i /\ c = j THEN k ELSE 0]]]

Canonical == {RIGID_SYMMETRIES[i] : i \in DOMAIN RIGID_SYMMETRIES}

\* the identity with k added at row i, column j: a shear, or for j = 2 the
\* translation the third column is kept for
elementary(i, j, k) ==
    [elems |-> [r \in 0..2 |-> [c \in 0..2 |->
        identity.elems[r][c] + (IF r = i /\ c = j THEN k ELSE 0)]]]

Matrices ==
    Canonical
    \cup {single_entry(i, j, k) : i \in 0..2, j \in 0..2, k \in (0 - MaxEntry)..MaxEntry}
    \cup {elementary(i, j, k) : i \in 0..2, j \in 0..2, k \in (0 - MaxEntry)..MaxEntry}

----------------------------------------------------------------------------
(* State machine: each action is one call; the state holds its arguments  *)
(* and what it returned.  A CellShape argument is always a value returned *)
(* by an earlier call, since the constructors are the only way to build   *)
(* one.                                                                   *)

NoInputs == coords' = <<>> /\ coords2' = <<>> /\ grid' = <<>> /\ grid2' = <<>>
NoPoint == point' = origin /\ image' = origin /\ tile' = Empty
NoOrients == images' = <<>> /\ orients' = {} /\ orients2' = {} /\ piece' = "none"
NoTileGrid ==
    /\ receiver' = TileGrid(<<>>) /\ prev' = TileGrid(<<>>)
    /\ arg_other' = TileGrid(<<>>)
    /\ arg_offset' = origin /\ ret' = FALSE
NoProduct == word' = <<>> /\ acc' = identity
NoTriple ==
    /\ ta' = identity /\ tb' = identity /\ tc' = identity
    /\ lprod' = identity /\ rprod' = identity

Init ==
    /\ op = "init"
    /\ coords = <<>> /\ coords2 = <<>> /\ grid = <<>> /\ grid2 = <<>>
    /\ before = empty /\ shape = empty /\ shape2 = empty
    /\ t = identity /\ point = origin /\ image = origin /\ tile = Empty
    /\ images = <<>> /\ orients = {} /\ orients2 = {} /\ piece = "none"
    /\ receiver = TileGrid(<<>>) /\ prev = TileGrid(<<>>)
    /\ arg_other = TileGrid(<<>>)
    /\ arg_offset = origin /\ ret = FALSE
    /\ word = <<>> /\ acc = identity
    /\ ta = identity /\ tb = identity /\ tc = identity
    /\ lprod = identity /\ rprod = identity

\* the operations that leave a CellShape in `shape`
HoldsShape == {"from_coordinate_list", "from_2darray", "transform_shape"}

\* CellShape::from_coordinate_list(cs)
FromCoordinateList ==
    /\ op = "init"
    /\ \E cs \in CoordLists :
        /\ op' = "from_coordinate_list"
        /\ coords' = cs
        /\ shape' = from_coordinate_list(cs)
        /\ coords2' = <<>> /\ grid' = <<>> /\ grid2' = <<>>
        /\ before' = empty /\ shape2' = empty /\ t' = identity
        /\ NoPoint /\ NoOrients /\ NoProduct /\ NoTriple /\ NoTileGrid

\* CellShape::from_2darray(g)
From2dArray ==
    /\ op = "init"
    /\ \E g \in Grids :
        /\ op' = "from_2darray"
        /\ grid' = g
        /\ shape' = from_2darray(g)
        /\ coords' = <<>> /\ coords2' = <<>> /\ grid2' = <<>>
        /\ before' = empty /\ shape2' = empty /\ t' = identity
        /\ NoPoint /\ NoOrients /\ NoProduct /\ NoTriple /\ NoTileGrid

\* RIGID_SYMMETRIES[i].transform_shape(shape)
TransformShape ==
    /\ op \in HoldsShape
    /\ \E i \in DOMAIN RIGID_SYMMETRIES :
        /\ op' = "transform_shape"
        /\ t' = RIGID_SYMMETRIES[i]
        /\ before' = shape
        /\ shape' = transform_shape(RIGID_SYMMETRIES[i], shape)
        /\ shape2' = empty
        /\ NoInputs /\ NoPoint /\ NoOrients /\ NoProduct /\ NoTriple /\ NoTileGrid

\* RIGID_SYMMETRIES[i].transform_coord(p)
TransformCoord ==
    /\ op = "init"
    /\ \E i \in DOMAIN RIGID_SYMMETRIES, p \in Points :
        /\ op' = "transform_coord"
        /\ t' = RIGID_SYMMETRIES[i]
        /\ point' = p
        /\ image' = transform_coord(RIGID_SYMMETRIES[i], p)
        /\ tile' = Empty
        /\ before' = empty /\ shape' = empty /\ shape2' = empty
        /\ NoInputs /\ NoOrients /\ NoProduct /\ NoTriple /\ NoTileGrid

\* create_all_orientations(shape, RIGID_SYMMETRIES.as_slice())
CreateAllOrientations ==
    /\ op \in HoldsShape
    /\ op' = "create_all_orientations"
    /\ before' = shape
    /\ images' = map_orientations(shape, RIGID_SYMMETRIES)
    /\ orients' = create_all_orientations(shape, RIGID_SYMMETRIES)
    /\ orients2' = {}
    /\ piece' = "none"
    /\ shape' = shape
    /\ shape2' = empty /\ t' = identity
    /\ NoInputs /\ NoPoint /\ NoProduct /\ NoTriple /\ NoTileGrid

\* Pentomino::shapes(p)
Shapes ==
    /\ op = "init"
    /\ \E k \in DOMAIN PENTOMINOES :
        LET rep == from_2darray(rep_grid(PENTOMINOES[k]))
        IN  /\ op' = "shapes"
            /\ piece' = PENTOMINOES[k]
            /\ grid' = rep_grid(PENTOMINOES[k])
            /\ before' = rep
            /\ images' = map_orientations(rep, RIGID_SYMMETRIES)
            /\ orients' = create_all_orientations(rep, RIGID_SYMMETRIES)
            /\ orients2' = {}
            /\ shape' = rep
            /\ coords' = <<>> /\ coords2' = <<>> /\ grid2' = <<>>
            /\ shape2' = empty /\ t' = identity
            /\ NoPoint /\ NoProduct /\ NoTriple /\ NoTileGrid

\* CellShape::from_coordinate_list(shape.filled_tiles().clone()), for the
\* shape that from_coordinate_list(coords) returned
Renormalise ==
    /\ op = "from_coordinate_list"
    /\ op' = "renormalise"
    /\ coords' = coords
    /\ coords2' = filled_tiles(shape)
    /\ before' = shape
    /\ shape' = from_coordinate_list(filled_tiles(shape))
    /\ grid' = <<>> /\ grid2' = <<>>
    /\ shape2' = empty /\ t' = identity
    /\ NoPoint /\ NoOrients /\ NoProduct /\ NoTriple /\ NoTileGrid

\* shape[p], for the shape that from_2darray(grid) returned
Index ==
    /\ op = "from_2darray"
    /\ \E p \in IndexPoints :
        /\ op' = "index"
        /\ point' = p
        /\ tile' = index(shape, p)
        /\ image' = origin
        /\ grid' = grid
        /\ shape' = shape
        /\ coords' = <<>> /\ coords2' = <<>> /\ grid2' = <<>>
        /\ before' = empty /\ shape2' = empty /\ t' = identity
        /\ NoOrients /\ NoProduct /\ NoTriple /\ NoTileGrid

\* the states that hold, once for each shape, a shape and its orientations
HoldsOrients == {"create_all_orientations", "shapes"}

\* (a * b).transform_shape(shape) next to
\* b.transform_shape(a.transform_shape(shape)), for two table entries a, b
MulTransformShape ==
    /\ op \in HoldsOrients
    /\ \E i \in DOMAIN RIGID_SYMMETRIES, j \in DOMAIN RIGID_SYMMETRIES :
        LET a == RIGID_SYMMETRIES[i]
            b == RIGID_SYMMETRIES[j]
        IN  /\ op' = "mul_transform_shape"
            /\ ta' = a /\ tb' = b
            /\ t' = mul(a, b)
            /\ before' = shape
            /\ shape' = transform_shape(mul(a, b), shape)
            /\ shape2' = transform_shape(b, transform_shape(a, shape))
            /\ tc' = identity /\ lprod' = identity /\ rprod' = identity
            /\ NoInputs /\ NoPoint /\ NoOrients /\ NoProduct /\ NoTileGrid

\* create_all_orientations(T, RIGID_SYMMETRIES.as_slice()) for a shape T of
\* the set that create_all_orientations returned
ReEnumerate ==
    /\ op \in HoldsOrients
    /\ \E T \in orients :
        /\ op' = "re_enumerate"
        /\ before' = before
        /\ orients' = orients
        /\ images' = images
        /\ piece' = piece
        /\ shape' = T
        /\ orients2' = create_all_orientations(T, RIGID_SYMMETRIES)
        /\ shape2' = empty /\ t' = identity
        /\ NoInputs /\ NoPoint /\ NoProduct /\ NoTriple /\ NoTileGrid

Next ==
    \/ FromCoordinateList
    \/ From2dArray
    \/ TransformShape
    \/ TransformCoord
    \/ CreateAllOrientations
    \/ Shapes
    \/ Renormalise
    \/ Index
    \/ MulTransformShape
    \/ ReEnumerate

Spec == Init /\ [][Next]_vars

----------------------------------------------------------------------------
(* Comparing two shapes: `assert_eq!(lhs, rhs)` on CellShape values       *)

\* lhs = from_coordinate_list(a), rhs = from_coordinate_list(b)
CompareLists ==
    /\ op = "init"
    /\ \E a \in PairLists, b \in PairLists :
        /\ op' = "compare_lists"
        /\ coords' = a
        /\ coords2' = b
        /\ shape' = from_coordinate_list(a)
        /\ shape2' = from_coordinate_list(b)
        /\ grid' = <<>> /\ grid2' = <<>>
        /\ before' = empty /\ t' = identity
        /\ NoPoint /\ NoOrients /\ NoProduct /\ NoTriple /\ NoTileGrid

\* lhs = from_2darray(g), rhs = from_2darray(g moved down and right)
CompareGrids ==
    /\ op = "init"
    /\ \E g \in Grids, top \in 0..MaxPad, left \in 0..MaxPad :
        /\ op' = "compare_grids"
        /\ grid' = g
        /\ grid2' = pad_grid(g, top, left)
        /\ shape' = from_2darray(g)
        /\ shape2' = from_2darray(pad_grid(g, top, left))
        /\ coords' = <<>> /\ coords2' = <<>>
        /\ before' = empty /\ t' = identity
        /\ NoPoint /\ NoOrients /\ NoProduct /\ NoTriple /\ NoTileGrid

\* lhs = from_coordinate_list(a), rhs = from_coordinate_list(lhs cells + d)
CompareTranslated ==
    /\ op = "init"
    /\ \E a \in PairLists, d \in PairDisplacements :
        LET lhs == from_coordinate_list(a)
        IN  /\ op' = "compare_translated"
            /\ coords' = a
            /\ shape' = lhs
            /\ coords2' = translate(filled_tiles(lhs), d)
            /\ shape2' = from_coordinate_list(translate(filled_tiles(lhs), d))
            /\ grid' = <<>> /\ grid2' = <<>>
            /\ before' = empty /\ t' = identity
            /\ NoPoint /\ NoOrients /\ NoProduct /\ NoTriple /\ NoTileGrid

NextEq ==
    \/ CompareLists
    \/ CompareGrids
    \/ CompareTranslated

SpecEq == Init /\ [][NextEq]_vars

----------------------------------------------------------------------------
(* Products of transforms                                                 *)

NoShapes ==
    /\ NoInputs
    /\ before' = empty /\ shape' = empty /\ shape2' = empty /\ t' = identity
    /\ NoPoint /\ NoOrients

\* one of the eight constructors: the first factor of a product
Constructor ==
    /\ op = "init"
    /\ \E i \in DOMAIN RIGID_SYMMETRIES :
        /\ op' = "constructor"
        /\ word' = <<RIGID_SYMMETRIES[i]>>
        /\ acc' = RIGID_SYMMETRIES[i]
        /\ NoShapes /\ NoTriple /\ NoTileGrid

\* acc * RIGID_SYMMETRIES[i]
Mul ==
    /\ op \in {"constructor", "mul"}
    /\ Len(word) < MaxWord
    /\ \E i \in DOMAIN RIGID_SYMMETRIES :
        /\ op' = "mul"
        /\ word' = Append(word, RIGID_SYMMETRIES[i])
        /\ acc' = mul(acc, RIGID_SYMMETRIES[i])
        /\ NoShapes /\ NoTriple /\ NoTileGrid

\* (a * b) * c and a * (b * c)
Associate ==
    /\ op = "init"
    /\ \E a \in Matrices, b \in Matrices, c \in Matrices :
        /\ op' = "associate"
        /\ ta' = a /\ tb' = b /\ tc' = c
        /\ lprod' = compose(compose(a, b), c)
        /\ rprod' = compose(a, compose(b, c))
        /\ NoShapes /\ NoProduct /\ NoTileGrid

NextGroup ==
    \/ Constructor
    \/ Mul
    \/ Associate

SpecGroup == Init /\ [][NextGroup]_vars

----------------------------------------------------------------------------
(* A TileGrid under fill and try_place_over                               *)

\* the cells of the board
BoardCells == {Coord(x, y) : x \in 0..(Board - 1), y \in 0..(Board - 1)}

\* the [[Tile; N]; N] literals with N <= Board and at most MaxTiles Filled
SquareGrids ==
    {g \in UNION {[0..(n - 1) -> [0..(n - 1) -> Tile]] : n \in 1..Board} :
        Cardinality({c \in [x : DOMAIN g, y : DOMAIN g] :
                        g[c.y][c.x] = Filled}) <= MaxTiles}

\* the grids handed to try_place_over
Others == {TileGrid_from_2darray(g) : g \in SquareGrids}

\* the offsets handed to try_place_over
Offsets == {Coord(x, y) : x \in -1..(Board - 1), y \in -1..(Board - 1)}

\* the receiver stays on the board and within MaxTiles tiles
OnBoard(tg) ==
    /\ Len(tg.filled_tiles) <= MaxTiles
    /\ \A i \in DOMAIN tg.filled_tiles : tg.filled_tiles[i] \in BoardCells

\* let mut receiver = TileGrid::from_2darray(g)
TileGridFrom2dArray ==
    /\ op = "init"
    /\ \E g \in SquareGrids :
        /\ op' = "tile_grid"
        /\ receiver' = TileGrid_from_2darray(g)
        /\ prev' = TileGrid(<<>>) /\ arg_other' = TileGrid(<<>>)
        /\ arg_offset' = origin /\ ret' = FALSE
        /\ NoShapes /\ NoProduct /\ NoTriple

\* receiver.fill(c)
Fill ==
    /\ op = "tile_grid"
    /\ \E c \in BoardCells :
        LET r == fill(receiver, c)
        IN  /\ OnBoard(r.self)
            /\ op' = "fill"
            /\ prev' = receiver
            /\ receiver' = r.self
            /\ ret' = r.ret
            /\ arg_offset' = c
            /\ arg_other' = TileGrid(<<>>)
            /\ NoShapes /\ NoProduct /\ NoTriple

\* receiver.try_place_over(&o, d)
TryPlaceOver ==
    /\ op = "tile_grid"
    /\ \E o \in Others, d \in Offsets :
        LET r == try_place_over(receiver, o, d)
        IN  /\ \A i \in DOMAIN o.filled_tiles :
                    add(o.filled_tiles[i], d) \in BoardCells
            /\ OnBoard(r.self)
            /\ op' = "try_place_over"
            /\ prev' = receiver
            /\ receiver' = r.self
            /\ ret' = r.ret
            /\ arg_offset' = d
            /\ arg_other' = o
            /\ NoShapes /\ NoProduct /\ NoTriple

\* the statement after a call: the receiver is kept for the next call, the
\* arguments and the returned bool of the last one are gone
NextStatement ==
    /\ op \in {"fill", "try_place_over"}
    /\ op' = "tile_grid"
    /\ receiver' = receiver
    /\ prev' = TileGrid(<<>>) /\ arg_other' = TileGrid(<<>>)
    /\ arg_offset' = origin /\ ret' = FALSE
    /\ NoShapes /\ NoProduct /\ NoTriple

NextGrid ==
    \/ TileGridFrom2dArray
    \/ Fill
    \/ TryPlaceOver
    \/ NextStatement

SpecGrid == Init /\ [][NextGrid]_vars

----------------------------------------------------------------------------
(* Properties                                                             *)

\* the set of cells of a coordinate list
Cells(cs) == {cs[i] : i \in DOMAIN cs}

\* the filled cells of a grid, column index = x and row index = y
GridCells(g) ==
    {c \in [x : 0..(cols_of(g) - 1), y : 0..(rows_of(g) - 1)] :
        g[c.y][c.x] = Filled}

\* the Shape invariant: minimum x = 0, minimum y = 0, cells strictly
\* ascending by x, then y
ShapeInvariant(s) ==
    LET ts == filled_tiles(s)
    IN  /\ \E i \in DOMAIN ts : ts[i].x = 0
        /\ \A i \in DOMAIN ts : ts[i].x >= 0
        /\ \E i \in DOMAIN ts : ts[i].y = 0
        /\ \A i \in DOMAIN ts : ts[i].y >= 0
        /\ \A i \in 1..(Len(ts) - 1) :
              \/ ts[i].x < ts[i + 1].x
              \/ ts[i].x = ts[i + 1].x /\ ts[i].y < ts[i + 1].y

\* C1: every CellShape that from_coordinate_list, from_2darray or
\* transform_shape returns for a non-empty cell list has minimum x = 0,
\* minimum y = 0 and its cells strictly ascending by x, then y.
C1_ShapeInvariant ==
    /\ (op = "from_coordinate_list" /\ coords # <<>>) => ShapeInvariant(shape)
    /\ (op = "from_2darray" /\ GridCells(grid) # {}) => ShapeInvariant(shape)
    /\ (op = "transform_shape" /\ filled_tiles(before) # <<>>)
          => ShapeInvariant(shape)

\* a list out of order, with a repeated entry and a negative coordinate
C1_Witness ==
    /\ op = "from_coordinate_list"
    /\ coords = <<Coord(1, -1), Coord(-1, 0), Coord(1, -1)>>
    /\ filled_tiles(shape) = <<Coord(0, 1), Coord(2, 0)>>

\* B is A moved by some displacement
IsTranslate(A, B) ==
    \E dx \in -(PairCoord + 1)..(PairCoord + 1), dy \in -(PairCoord + 1)..(PairCoord + 1) :
        B = {Coord(c.x + dx, c.y + dy) : c \in A}

\* C2: two coordinate lists give equal shapes if and only if the cell set
\* of one is a translate of the cell set of the other; a shape's cells moved
\* by any displacement normalise to the same shape; a grid moved by whole
\* rows and columns gives the same shape.
C2_EqualIffTranslate ==
    /\ op = "compare_lists"
          => ((shape = shape2) <=> IsTranslate(Cells(coords), Cells(coords2)))
    /\ op = "compare_translated" => shape2 = shape
    /\ op = "compare_grids" => shape2 = shape

\* two lists in different order, one column apart, with equal shapes
C2_Witness ==
    /\ op = "compare_lists"
    /\ coords = <<Coord(0, -1), Coord(0, 0)>>
    /\ coords2 = <<Coord(-1, 0), Coord(-1, -1)>>
    /\ shape = shape2
    /\ filled_tiles(shape) = <<Coord(0, 0), Coord(0, 1)>>

\* C3: the product of any two of the eight transforms of RIGID_SYMMETRIES
\* is, entry by entry, third row included, one of the eight.
C3_GroupClosure ==
    (op = "mul" /\ Len(word) = 2)
        => \E i \in DOMAIN RIGID_SYMMETRIES : acc = RIGID_SYMMETRIES[i]

\* rotate90 * mirror_horizontal is mirror_diagonal
C3_Witness ==
    /\ op = "mul"
    /\ word = <<rotate90, mirror_horizontal>>
    /\ acc = mirror_diagonal

\* the number of orientations of the shape an enumeration received
OrbitSize == Cardinality(orients)

\* the number of transforms of the table that map that shape to itself
StabiliserSize == Cardinality({i \in DOMAIN images : images[i] = before})

\* C4: the set create_all_orientations returns has 1, 2, 4 or 8 elements.
C4_OrbitSizeDividesEight ==
    op \in {"create_all_orientations", "shapes"} => OrbitSize \in {1, 2, 4, 8}

\* a shape with no symmetry: eight orientations
C4_Witness ==
    /\ op = "create_all_orientations"
    /\ filled_tiles(before) = <<Coord(0, 0), Coord(0, 1), Coord(1, 0), Coord(2, 0)>>
    /\ OrbitSize = 8

\* C5: for a non-empty shape, the number of orientations times the number
\* of transforms that map the shape to itself is 8.
C5_OrbitStabiliser ==
    (op \in {"create_all_orientations", "shapes"} /\ filled_tiles(before) # <<>>)
        => OrbitSize * StabiliserSize = 8

\* a shape fixed by the identity and one reflection only: four orientations
C5_Witness ==
    /\ op = "create_all_orientations"
    /\ filled_tiles(before) = <<Coord(0, 0), Coord(0, 1), Coord(1, 0)>>
    /\ StabiliserSize = 2
    /\ OrbitSize = 4

\* C6: Pentomino::X has 1 orientation, Pentomino::I has 2 (the vertical and
\* the horizontal bar of five cells), Pentomino::F has 8.
C6_KnownCounts ==
    op = "shapes" =>
        /\ piece = "X" =>
              /\ Cells(filled_tiles(before)) =
                    {Coord(1, 0), Coord(0, 1), Coord(1, 1), Coord(2, 1), Coord(1, 2)}
              /\ OrbitSize = 1
        /\ piece = "I" =>
              /\ OrbitSize = 2
              /\ {Cells(filled_tiles(s)) : s \in orients} =
                    { {Coord(0, y) : y \in 0..4}, {Coord(x, 0) : x \in 0..4} }
        /\ piece = "F" =>
              /\ Cells(filled_tiles(before)) =
                    {Coord(1, 0), Coord(2, 0), Coord(0, 1), Coord(1, 1), Coord(1, 2)}
              /\ OrbitSize = 8

\* the orientations of Pentomino::I have been enumerated
C6_Witness ==
    /\ op = "shapes"
    /\ piece = "I"
    /\ CellShape(<<Coord(0, 0), Coord(1, 0), Coord(2, 0), Coord(3, 0), Coord(4, 0)>>)
          \in orients

\* C7: with R = rotate90 and H = mirror_horizontal and products evaluated
\* left to right, R*R*R*R = identity, H*H = identity, R*R*H =
\* mirror_vertical, R*H = mirror_diagonal, R*R*R*H = mirror_diagonal2,
\* R*R = rotate180 and R*R*R = rotate270.
C7_GroupIdentities ==
    LET R == rotate90
        H == mirror_horizontal
    IN  /\ word = <<R, R, R, R>> => acc = identity
        /\ word = <<H, H>> => acc = identity
        /\ word = <<R, R, H>> => acc = mirror_vertical
        /\ word = <<R, H>> => acc = mirror_diagonal
        /\ word = <<R, R, R, H>> => acc = mirror_diagonal2
        /\ word = <<R, R>> => acc = rotate180
        /\ word = <<R, R, R>> => acc = rotate270

\* R*R*R*H has been evaluated
C7_Witness ==
    /\ op = "mul"
    /\ word = <<rotate90, rotate90, rotate90, mirror_horizontal>>
    /\ acc = mirror_diagonal2

\* the matrix product of m by n: entry [r][c] is the sum over k of
\* m.elems[r][k] * n.elems[k][c]
mat_mul(m, n) ==
    [elems |-> [r \in 0..2 |-> [c \in 0..2 |->
        m.elems[r][0] * n.elems[0][c] + m.elems[r][1] * n.elems[1][c]
            + m.elems[r][2] * n.elems[2][c]]]]

\* C8 as stated: compose(a, b) is the matrix product of a's matrix by b's
\* matrix, in that order.
C8_ComposeIsProductAB ==
    (op = "mul" /\ Len(word) = 2) => acc = mat_mul(word[1], word[2])

\* C8 as amended: compose(a, b) is the matrix product of b's matrix by a's
\* matrix: entry [r][c] is the sum over k of b.elems[r][k] * a.elems[k][c].
C8_ComposeIsProductBA ==
    (op = "mul" /\ Len(word) = 2) => acc = mat_mul(word[2], word[1])

\* mirror_horizontal * rotate90, whose two matrix products differ
C8_Witness ==
    /\ op = "mul"
    /\ word = <<mirror_horizontal, rotate90>>
    /\ acc = mirror_diagonal2
    /\ mat_mul(mirror_horizontal, rotate90) = mirror_diagonal

\* C9: compose(compose(a, b), c) = compose(a, compose(b, c)).
C9_ComposeAssociative ==
    op = "associate" => lprod = rprod

\* a rotation, a translation and a shear: three matrices that do not commute
C9_Witness ==
    /\ op = "associate"
    /\ ta = rotate90
    /\ tb = elementary(0, 2, 1)
    /\ tc = elementary(1, 0, -1)
    /\ lprod = Transform(<<0, 1, 1>>, <<-1, -1, -1>>, <<0, 0, 1>>)
    /\ rprod = lprod

\* C10: identity().transform_shape(S) = S for every shape S, the empty one
\* included, and identity().transform_coord(p) = p for every point p.
C10_IdentityRoundTrip ==
    /\ (op = "transform_shape" /\ t = identity) => shape = before
    /\ (op = "transform_coord" /\ t = identity) => image = point

\* the identity applied to a shape of three cells
C10_Witness ==
    /\ op = "transform_shape"
    /\ t = identity
    /\ filled_tiles(before) = <<Coord(0, 1), Coord(1, 0), Coord(1, 2)>>
    /\ shape = before

----------------------------------------------------------------------------
\* C11: normalisation is idempotent: from_coordinate_list applied to the
\* cells of from_coordinate_list(L) returns a shape equal to
\* from_coordinate_list(L), for every coordinate list L.
C11_NormaliseIdempotent ==
    op = "renormalise" =>
        /\ before = from_coordinate_list(coords)
        /\ coords2 = filled_tiles(before)
        /\ shape = before

\* a list that is neither sorted nor deduplicated nor anchored at the
\* origin has been normalised, and its cells have been normalised again
C11_Witness ==
    /\ op = "renormalise"
    /\ coords = <<Coord(1, 0), Coord(-1, 1), Coord(1, 0)>>
    /\ before = CellShape(<<Coord(0, 1), Coord(2, 0)>>)
    /\ shape = before

----------------------------------------------------------------------------
\* C12: the empty shape is handled totally: from_coordinate_list of the
\* empty list and from_2darray of an all-Empty grid are the empty shape, each
\* of the 8 canonical transforms maps the empty shape to the empty shape, and
\* create_all_orientations of the empty shape is the set holding only it.
C12_EmptyShapeTotal ==
    /\ (op = "from_coordinate_list" /\ coords = <<>>) => shape = empty
    /\ (op = "from_2darray" /\ GridCells(grid) = {}) => shape = empty
    /\ (op = "transform_shape" /\ filled_tiles(before) = <<>>) =>
            shape = empty
    /\ (op = "create_all_orientations" /\ filled_tiles(before) = <<>>) =>
            /\ Len(images) = 8
            /\ orients = {empty}

\* the empty shape, built from an all-Empty grid, has been enumerated
C12_Witness ==
    /\ op = "create_all_orientations"
    /\ before = empty
    /\ orients = {empty}

----------------------------------------------------------------------------
\* C14: rotate90 applied to a point: transform_coord((x, y)) = (y, -x) for
\* every point; (0, 1) maps to (1, 0), (1, 0) maps to (0, -1) and the origin
\* is fixed.
C14_Rotate90Coord ==
    (op = "transform_coord" /\ t = rotate90) =>
        /\ image = Coord(point.y, -point.x)
        /\ point = Coord(0, 1) => image = Coord(1, 0)
        /\ point = Coord(1, 0) => image = Coord(0, -1)
        /\ point = origin => image = origin

\* rotate90 has been applied to (0, 1)
C14_Witness ==
    /\ op = "transform_coord"
    /\ t = rotate90
    /\ point = Coord(0, 1)
    /\ image = Coord(1, 0)

----------------------------------------------------------------------------
\* the largest element of a non-empty set of isize
max(S) == CHOOSE m \in S : \A n \in S : m >= n

\* the left-right mirror image of the cells of s inside its bounding box
MirrorImage(s) ==
    LET W == 1 + max({c.x : c \in Cells(filled_tiles(s))})
    IN  {Coord(W - 1 - c.x, c.y) : c \in Cells(filled_tiles(s))}

----------------------------------------------------------------------------
----------------------------------------------------------------------------
\* the first row and the first column of g that contain a Filled marker
FirstRow(g) == min({c.y : c \in GridCells(g)})
FirstCol(g) == min({c.x : c \in GridCells(g)})

\* (x, y) lies inside the grid g
Inside(g, x, y) == x \in 0..(cols_of(g) - 1) /\ y \in 0..(rows_of(g) - 1)

\* C13: membership after grid construction: for a grid g with at least one
\* Filled marker, first filled row r0 and first filled column c0,
\* from_2darray(g)[(x, y)] is Filled if and only if (x + c0, y + r0) lies
\* inside the grid and g[y + r0][x + c0] is Filled; every point with a
\* negative coordinate or outside the shifted grid reads Empty.
C13_MembershipAfterGrid ==
    (op = "index" /\ GridCells(grid) # {}) =>
        LET r0 == FirstRow(grid)
            c0 == FirstCol(grid)
            x == point.x
            y == point.y
        IN  /\ tile = Filled <=>
                    (/\ Inside(grid, x + c0, y + r0)
                     /\ grid[y + r0][x + c0] = Filled)
            /\ tile \in Tile
            /\ (x < 0 \/ y < 0 \/ ~Inside(grid, x + c0, y + r0)) =>
                    tile = Empty

\* a grid whose first filled row and column are both 1 has been built and
\* the cell at the shape's origin read back as Filled
C13_Witness ==
    /\ op = "index"
    /\ grid = Grid(<<<<Empty, Empty, Empty>>,
                      <<Empty, Filled, Filled>>>>)
    /\ point = origin
    /\ tile = Filled

----------------------------------------------------------------------------
\* C15: composition is compatible with application to shapes: for all a, b
\* among the 8 canonical transforms and every shape S,
\* (a * b).transform_shape(S) = b.transform_shape(a.transform_shape(S)): the
\* product acts as a first, then b, whatever the normalisation in between.
C15_MulActsOnShapes ==
    op = "mul_transform_shape" =>
        /\ t = mul(ta, tb)
        /\ shape = transform_shape(t, before)
        /\ shape = shape2

\* two transforms that do not commute have been applied to a shape on which
\* the two orders differ
C15_Witness ==
    /\ op = "mul_transform_shape"
    /\ ta = mirror_horizontal /\ tb = rotate90
    /\ before = CellShape(<<Coord(0, 0), Coord(0, 1), Coord(1, 1)>>)
    /\ shape = shape2
    /\ shape # transform_shape(mirror_horizontal,
                               transform_shape(rotate90, before))

----------------------------------------------------------------------------
\* C16: the orientation set does not depend on the representative: for
\* every shape S and every T in create_all_orientations(S, RIGID_SYMMETRIES),
\* create_all_orientations(T, RIGID_SYMMETRIES) is the same set; S itself
\* is always a member of its own orientation set.
C16_OrientsOfMember ==
    /\ op \in HoldsOrients \cup {"re_enumerate"} => before \in orients
    /\ op = "re_enumerate" =>
            /\ shape \in orients
            /\ orients2 = orients

\* the orientations of the F pentomino have been enumerated again from one
\* of its other seven orientations
C16_Witness ==
    /\ op = "re_enumerate"
    /\ piece = "F"
    /\ shape # before
    /\ Cardinality(orients) = 8
    /\ orients2 = orients

----------------------------------------------------------------------------
\* the cells of `other`, shifted by `offset`
Shifted == {add(c, arg_offset) : c \in Cells(arg_other.filled_tiles)}

\* C19: try_place_over is all-or-nothing: in any grid state reached by fill
\* and try_place_over calls, try_place_over(other, offset) returns false
\* exactly when a filled cell of other, shifted by offset, is already filled
\* in the receiver, and then the receiver is left unmodified; when it
\* returns true the receiver's filled cells are the previous ones plus all
\* the shifted cells of other.
C19_PlaceAllOrNothing ==
    op = "try_place_over" =>
        /\ ret = FALSE <=> Shifted \cap Cells(prev.filled_tiles) # {}
        /\ ret = FALSE =>
                /\ Cells(receiver.filled_tiles) = Cells(prev.filled_tiles)
                /\ receiver = prev
        /\ ret = TRUE =>
                Cells(receiver.filled_tiles)
                    = Cells(prev.filled_tiles) \cup Shifted

\* a two-cell grid has been refused whose first cell was free and whose
\* second cell was taken, on a receiver that an earlier fill had changed
C19_Witness ==
    /\ op = "try_place_over"
    /\ prev = TileGrid(<<Coord(0, 1)>>)
    /\ arg_other = TileGrid(<<Coord(0, 0), Coord(0, 1)>>)
    /\ arg_offset = origin
    /\ ret = FALSE
    /\ receiver = prev

\* a grid has been placed next to a tile that was already there
C19_WitnessPlaced ==
    /\ op = "try_place_over"
    /\ prev = TileGrid(<<Coord(0, 1)>>)
    /\ arg_other = TileGrid(<<Coord(0, 0)>>)
    /\ arg_offset = Coord(1, 0)
    /\ ret = TRUE
    /\ receiver = TileGrid(<<Coord(0, 1), Coord(1, 0)>>)

====
